---------------------------- MODULE Spec2Model ----------------------------
(***************************************************************************)
(* A model of package xlog (gnenux/xlog), the asynchronous revision with   *)
(* the record queue, the writer goroutine and the day-rotation goroutine.  *)
(*                                                                         *)
(* Threads: any number of producers inside Logger.output, one goroutine    *)
(* running Logger.write, one running Logger.changeFileByDay, and the       *)
(* environment (the clock, and a caller of SetLogLevel).  Every statement  *)
(* that touches shared state (l.level, l.buffer, l.dayChange, l.out, l.f,  *)
(* the file system, the process) is one step, so every interleaving the    *)
(* goroutines can produce is a behaviour of the model.  The file system is *)
(* changed by the program only.                                            *)
(***************************************************************************)
EXTENDS Integers, Sequences, FiniteSets, TLC

(***************************************************************************)
(* Bounds of the model.                                                    *)
(***************************************************************************)
\* capacity of l.buffer; the source sets 1024 (defaultBufferSize)
defaultBufferSize == 1
\* number of calls of output, by the producers and by the rotation
\* goroutine (l.Error)
MaxCalls == 2
\* number of midnights the clock passes
MaxTicks == 1
\* number of calls of output in the runs in which every caller logs with
\* Info
MaxInfoCalls == 4

(***************************************************************************)
(* LogLevel, in the order of the iota block.                               *)
(***************************************************************************)
LevelDebug == 0
LevelInfo == 1
LevelWarn == 2
LevelError == 3
LevelPanic == 4
LevelFatal == 5

LogLevel == LevelDebug .. LevelFatal

\* the thresholds given to NewLogger and to SetLogLevel
Thresholds == {LevelDebug, LevelFatal}

(***************************************************************************)
(* time.Time, to the second.  The clock of the model moves from one        *)
(* midnight to the next.                                                   *)
(***************************************************************************)
IsLeap(y) == (y % 4 = 0 /\ y % 100 # 0) \/ y % 400 = 0

DaysIn(y, m) ==
    IF m = 2 THEN (IF IsLeap(y) THEN 29 ELSE 28)
    ELSE IF m \in {4, 6, 9, 11} THEN 30 ELSE 31

Midnight(y, m, d) ==
    [year |-> y, month |-> m, day |-> d, hour |-> 0, min |-> 0, sec |-> 0]

NextDate(t) ==
    IF t.day < DaysIn(t.year, t.month) THEN Midnight(t.year, t.month, t.day + 1)
    ELSE IF t.month < 12 THEN Midnight(t.year, t.month + 1, 1)
    ELSE Midnight(t.year + 1, 1, 1)

\* the instants at which the logger is constructed
StartDates ==
    { [year |-> 2018, month |-> 12, day |-> 31,
       hour |-> 23, min |-> 59, sec |-> 59] }

(***************************************************************************)
(* fmt.Sprint and fmt.Sprintf on operands that are strings ("s"), ints     *)
(* ("d") or errors ("e").  A template is the sequence of its verbs and     *)
(* literal pieces; the template "" is the empty sequence.                  *)
(***************************************************************************)
StrArg(s) == [k |-> "s", s |-> s]
IntArg(n) == [k |-> "d", s |-> ToString(n)]
ErrArg(s) == [k |-> "e", s |-> s]

\* a slip: Sprintln's rule, a space between any two operands
OperandSepAlways(a, b) == " "

\* Sprint adds a space between operands when neither is a string
OperandSep(a, b) == IF a.k # "s" /\ b.k # "s" THEN " " ELSE ""

RECURSIVE SprintFrom(_, _)
SprintFrom(v, i) ==
    IF i > Len(v) THEN ""
    ELSE (IF i > 1 THEN OperandSep(v[i - 1], v[i]) ELSE "")
         \o v[i].s \o SprintFrom(v, i + 1)

Sprint(v) == SprintFrom(v, 1)

IsVerb(tok) == tok \in {"%s", "%d", "%v"}

RECURSIVE SprintfFrom(_, _, _, _)
SprintfFrom(format, v, i, a) ==
    IF i > Len(format) THEN ""
    ELSE IF IsVerb(format[i])
         THEN (IF a > Len(v) THEN "%!" \o format[i] \o "(MISSING)" ELSE v[a].s)
              \o SprintfFrom(format, v, i + 1, a + 1)
         ELSE format[i] \o SprintfFrom(format, v, i + 1, a)

Sprintf(format, v) == SprintfFrom(format, v, 1, 1)

\* the message body, as format and write compute it
Body(lc) == IF lc.format = <<>> THEN Sprint(lc.v) ELSE Sprintf(lc.format, lc.v)

\* the calls the producers make: Info("a", 1), Panicf("%s=%d", "x", 1),
\* Fatal("a", 1)
Plain == [format |-> << >>, v |-> << StrArg("a"), IntArg(1) >>]
Templated == [format |-> << "%s", "=", "%d" >>, v |-> << StrArg("x"), IntArg(1) >>]

Calls ==
    { [level |-> LevelInfo, msg |-> Plain],
      [level |-> LevelPanic, msg |-> Templated],
      [level |-> LevelFatal, msg |-> Plain] }

(***************************************************************************)
(* Logger.format: the buffer is the sequence of the pieces written to it,  *)
(* one piece for each WriteString and each WriteByte.                      *)
(***************************************************************************)
Itoa(n) == ToString(n)

\* a slip: no leading zero is written
ZeroPadNever(n) == << >>

\* if n < 10 { buf.WriteByte('0') }
ZeroPad(n) == IF n < 10 THEN << "0" >> ELSE << >>

levelName(lv) ==
    CASE lv = LevelDebug -> "debug"
      [] lv = LevelInfo -> "info"
      [] lv = LevelWarn -> "warn"
      [] lv = LevelError -> "error"
      [] lv = LevelPanic -> "panic"
      [] lv = LevelFatal -> "fatal"

formatBytes(lc) ==
    << Itoa(lc.t.year), "/" >>
    \o ZeroPad(lc.t.month) \o << Itoa(lc.t.month), "/" >>
    \o ZeroPad(lc.t.day) \o << Itoa(lc.t.day), " " >>
    \o ZeroPad(lc.t.hour) \o << Itoa(lc.t.hour), ":" >>
    \o ZeroPad(lc.t.min) \o << Itoa(lc.t.min), ":" >>
    \o ZeroPad(lc.t.sec) \o << Itoa(lc.t.sec), " " >>
    \o << "[", levelName(lc.level), "]", " ", lc.file, ":", Itoa(lc.line), " ",
          Body(lc), "\n" >>

(***************************************************************************)
(* Files.  A sink is the stream given to NewLogger or a handle returned by *)
(* createFile; handles are numbered in the order they are opened.          *)
(***************************************************************************)
Stream == 0
NilFile == 0 - 1
NoLink == ""
logFile == "log"

Pad2(n) == IF n < 10 THEN " " \o ToString(n) ELSE ToString(n)

\* fmt.Sprintf("%4d%2d%2d", ...): width 2, padded with spaces
formatTime(t) == ToString(t.year) \o Pad2(t.month) \o Pad2(t.day)

DatedName(base, t) == base \o "." \o formatTime(t)

VARIABLES
    level,      \* l.level
    buffer,     \* l.buffer, the records queued
    out,        \* l.out, the active sink
    f,          \* l.f, the current file handle, NilFile for a stream logger
    curDay,     \* l.curDay
    now,        \* time.Now(), to the day
    files,      \* names of the files that exist
    link,       \* target of the symlink named logFile, NoLink when absent
    handles,    \* handle -> name of the file it was opened on
    closed,     \* handles that were closed
    sending,    \* the records of the producers that are at the send in output
    wpc, wlc, wout,   \* the writer: position, record in hand, sink it loaded
    pool,       \* l.bufferPool, the buffers that a Get can hand out
    wbuf,       \* the buffer format took; logBytes aliases it until Write returns
    notes,      \* history: the number of notifications passed on l.dayChange
    attempts,   \* history: the number of createFile calls of changeFileByDay
    rpc, rlc, rnew, roldF, \* rotation: position, Error record, new and old handle
    halted,     \* "no", or what ended the process
    exitCode,   \* exit status of the process once halted
    panicMsg,   \* the value given to panic
    accepted,   \* history: the records in the order they entered the queue
    written,    \* history: the records written, the sink that took them, the bytes
    lost,       \* history: the records whose Write failed
    errs,       \* history: the number of createFile calls that failed
    calls,      \* history: the number of calls of output
    budget,     \* the number of calls of output this run of the program makes
    ticks       \* history: the number of midnights passed

vars == << level, buffer, out, f, curDay, now, files, link, handles, closed,
           sending, wpc, wlc, wout, rpc, rlc, rnew, roldF, halted, exitCode,
           panicMsg, accepted, written, lost, errs, calls, ticks, pool, wbuf,
           notes, attempts, budget >>

\* bytes.Buffer values are numbered; NilBuf is no buffer
NilBuf == 0
NewBuf == 1

\* sync.Pool.Get: a buffer of the pool, or the one New makes for an empty pool
Get(p) == IF p = {} THEN NewBuf ELSE CHOOSE b \in p : TRUE

\* the deferred l.bufferPool.Put(buf) runs as format returns
PutAtFormatReturn(p, b) == p \cup {b}

NoRec == [id |-> 0]

Running == halted = "no"

(***************************************************************************)
(* NewLogger and NewLoggerFromFile.  A stream logger writes to Stream and  *)
(* has no file; a file logger has opened handle 1 on the file dated today  *)
(* and created the symlink (either failure ends the process in the         *)
(* constructor, so no logger exists then).                                 *)
(***************************************************************************)
Init ==
    \E t \in StartDates, fromFile \in BOOLEAN, thr \in Thresholds :
        /\ level = thr
        /\ buffer = << >>
        /\ now = t
        /\ curDay = t.day
        /\ out = IF fromFile THEN 1 ELSE Stream
        /\ f = IF fromFile THEN 1 ELSE NilFile
        /\ files = IF fromFile THEN {DatedName(logFile, t)} ELSE {}
        /\ link = IF fromFile THEN DatedName(logFile, t) ELSE NoLink
        /\ handles = IF fromFile THEN << DatedName(logFile, t) >> ELSE << >>
        /\ closed = {}
        /\ sending = {}
        /\ wpc = "recv" /\ wlc = NoRec /\ wout = NilFile
        /\ pool = {} /\ wbuf = NilBuf
        /\ notes = 0 /\ attempts = 0
        /\ rpc = "wait" /\ rlc = NoRec /\ rnew = NilFile /\ roldF = NilFile
        /\ halted = "no" /\ exitCode = 0 /\ panicMsg = ""
        /\ accepted = << >> /\ written = << >> /\ lost = << >>
        /\ errs = 0 /\ calls = 0 /\ ticks = 0
        /\ budget = MaxCalls

(***************************************************************************)
(* The environment: midnight passes; somebody calls SetLogLevel.           *)
(***************************************************************************)
Tick ==
    /\ Running /\ ticks < MaxTicks
    /\ now' = NextDate(now)
    /\ ticks' = ticks + 1
    /\ UNCHANGED << level, buffer, out, f, curDay, files, link, handles, closed,
                    sending, wpc, wlc, wout, rpc, rlc, rnew, roldF, halted,
                    exitCode, panicMsg, accepted, written, lost, calls, errs,
                    pool, wbuf,
                    notes, attempts, budget >>

SetLogLevel(lv) ==
    /\ Running
    /\ level' = lv
    /\ UNCHANGED << buffer, out, f, curDay, now, files, link, handles, closed,
                    sending, wpc, wlc, wout, rpc, rlc, rnew, roldF, halted,
                    exitCode, panicMsg, accepted, written, lost, calls, ticks, errs,
                    pool, wbuf,
                    notes, attempts, budget >>

(***************************************************************************)
(* Logger.output.  The level test and time.Now() are the first step; the   *)
(* send on l.buffer is the second, enabled only while the channel has a    *)
(* free slot.  A record carries, for the history, the number of the call   *)
(* that made it (id) and the threshold its level was tested against (thr). *)
(***************************************************************************)
\* a slip: the comparison the wrong way round
BelowThresholdInverted(lv, threshold) == lv > threshold

\* the test of output: true when the call returns without queuing
BelowThreshold(lv, threshold) == lv < threshold

\* a slip: a channel with one slot too many
CanSendOffByOne(q) == Len(q) <= defaultBufferSize

\* the channel send can proceed
CanSend(q) == Len(q) < defaultBufferSize

\* runtime.Caller(l.calldepth): the line of the test that calls the logger
CallerFile == "xlog_test.go"
CallerLine == 12

NewRecord(n, lv, msg) ==
    [id |-> n, t |-> now, level |-> lv, file |-> CallerFile,
     line |-> CallerLine, format |-> msg.format, v |-> msg.v, thr |-> level]

output(lv, msg) ==
    /\ Running
    /\ calls < budget
    /\ calls' = calls + 1
    /\ IF BelowThreshold(lv, level)
       THEN sending' = sending
       ELSE sending' = sending \cup {NewRecord(calls + 1, lv, msg)}
    /\ UNCHANGED << level, buffer, out, f, curDay, now, files, link, handles,
                    closed, wpc, wlc, wout, rpc, rlc, rnew, roldF, halted,
                    exitCode, panicMsg, accepted, written, lost, ticks, errs,
                    pool, wbuf,
                    notes, attempts, budget >>

outputSend(lc) ==
    /\ Running
    /\ lc \in sending
    /\ CanSend(buffer)
    /\ buffer' = Append(buffer, lc)
    /\ accepted' = Append(accepted, lc)
    /\ sending' = sending \ {lc}
    /\ UNCHANGED << level, out, f, curDay, now, files, link, handles, closed,
                    wpc, wlc, wout, rpc, rlc, rnew, roldF, halted, exitCode,
                    panicMsg, written, lost, calls, ticks, errs,
                    pool, wbuf,
                    notes, attempts, budget >>

(***************************************************************************)
(* Logger.write, with Logger.format inlined where it touches shared state. *)
(*   recv   : lc := <-l.buffer, then format takes a buffer from the pool   *)
(*            and compares the days                                        *)
(*   notify : l.dayChange <- true   (unbuffered: waits for the receiver)   *)
(*            then format fills the buffer and returns: the deferred Put   *)
(*   load   : the read of l.out                                            *)
(*   write  : Write(logBytes) on the sink that was read                    *)
(*   term   : os.Exit(1) or panic(s), for a Fatal or Panic record          *)
(***************************************************************************)
\* format has a value receiver: l.curDay = day assigns to its copy
MarkerAfter(marker, day) == marker

\* a slip: a Panic record is treated as an ordinary one
IsTerminalOnlyFatal(lv) == lv = LevelFatal

IsTerminal(lv) == lv = LevelFatal \/ lv = LevelPanic

writeRecv ==
    /\ Running
    /\ wpc = "recv"
    /\ buffer # << >>
    /\ wlc' = Head(buffer)
    /\ buffer' = Tail(buffer)
    /\ wbuf' = Get(pool)
    /\ IF Head(buffer).t.day # curDay
       THEN /\ curDay' = MarkerAfter(curDay, Head(buffer).t.day)
            /\ wpc' = "notify"
            /\ pool' = pool \ {Get(pool)}
       ELSE /\ curDay' = curDay
            /\ wpc' = "load"
            /\ pool' = PutAtFormatReturn(pool \ {Get(pool)}, Get(pool))
    /\ UNCHANGED << level, out, f, now, files, link, handles, closed, sending,
                    wout, rpc, rlc, rnew, roldF, halted, exitCode, panicMsg,
                    accepted, written, lost, calls, ticks, errs,
                    notes, attempts, budget >>

\* the send and the receive on l.dayChange meet
dayChange ==
    /\ Running
    /\ wpc = "notify"
    /\ rpc = "wait"
    /\ wpc' = "load"
    /\ rpc' = "recvd"
    /\ pool' = PutAtFormatReturn(pool, wbuf)
    /\ notes' = notes + 1
    /\ UNCHANGED << level, buffer, out, f, curDay, now, files, link, handles,
                    closed, sending, wlc, wout, rlc, rnew, roldF, halted,
                    exitCode, panicMsg, accepted, written, lost, calls, ticks, errs,
                    wbuf, attempts, budget >>

writeLoad ==
    /\ Running
    /\ wpc = "load"
    /\ wout' = out
    /\ wpc' = "write"
    /\ UNCHANGED << level, buffer, out, f, curDay, now, files, link, handles,
                    closed, sending, wlc, rpc, rlc, rnew, roldF, halted,
                    exitCode, panicMsg, accepted, written, lost, calls, ticks, errs,
                    pool, wbuf,
                    notes, attempts, budget >>

\* Write on a closed *os.File returns os.ErrClosed and writes nothing
WriteOk(h, closedSet) == h \notin closedSet

writeOut ==
    /\ Running
    /\ wpc = "write"
    /\ IF WriteOk(wout, closed)
       THEN /\ written' = Append(written, [lc |-> wlc, h |-> wout,
                                            bytes |-> formatBytes(wlc)])
            /\ lost' = lost
       ELSE /\ lost' = Append(lost, [lc |-> wlc, h |-> wout])
            /\ written' = written
    /\ wout' = NilFile
    /\ wbuf' = NilBuf
    /\ IF IsTerminal(wlc.level)
       THEN wpc' = "term" /\ wlc' = wlc
       ELSE wpc' = "recv" /\ wlc' = NoRec
    /\ UNCHANGED << level, buffer, out, f, curDay, now, files, link, handles,
                    closed, sending, rpc, rlc, rnew, roldF, halted, exitCode,
                    panicMsg, accepted, calls, ticks, errs,
                    pool,
                    notes, attempts, budget >>

writeTerm ==
    /\ Running
    /\ wpc = "term"
    /\ IF wlc.level = LevelFatal
       THEN /\ halted' = "fatal"
            /\ exitCode' = 1
            /\ panicMsg' = panicMsg
       ELSE /\ halted' = "panic"
            /\ panicMsg' = (IF wlc.format = << >> THEN Sprint(wlc.v)
                            ELSE Sprintf(wlc.format, wlc.v))
            /\ exitCode' = 2
    /\ UNCHANGED << level, buffer, out, f, curDay, now, files, link, handles,
                    closed, sending, wpc, wlc, wout, rpc, rlc, rnew, roldF,
                    accepted, written, lost, calls, ticks, errs,
                    pool, wbuf,
                    notes, attempts, budget >>

(***************************************************************************)
(* Logger.changeFileByDay.                                                 *)
(*   wait    : <-l.dayChange                                               *)
(*   recvd   : the test l.f != nil, then createFile                        *)
(*   report  : l.Error(err), at its send on l.buffer                       *)
(*   swap    : oldF := l.f; l.out = f; l.f = f                             *)
(*   close   : oldF.Close()                                                *)
(*   symlink : os.Symlink(nowLogFile, l.fileName), log.Fatal when it fails *)
(***************************************************************************)
\* os.Symlink fails with EEXIST when the new name exists
SymlinkOk(target) == target = NoLink

\* runtime.Caller(l.calldepth) from the goroutine's own function: the frame
\* above it is the runtime's goroutine exit stub
GoexitFile == "asm_amd64.s"
GoexitLine == 1

ErrorRecord(n, name) ==
    [id |-> n, t |-> now, level |-> LevelError, file |-> GoexitFile,
     line |-> GoexitLine, format |-> << >>,
     v |-> << ErrArg("open " \o name \o ": permission denied") >>,
     thr |-> level]

\* a slip: a failed createFile is tried again at once, without a notification
AfterCreateRetries(ok, filtered) == IF ok THEN "swap" ELSE "recvd"

\* a slip: the error of createFile is not looked at
AfterCreateIgnoresError(ok, filtered) == "swap"

\* where changeFileByDay goes after createFile: on to the swap, or, on an
\* error, into l.Error(err) and then (continue) back to the receive
AfterCreate(ok, filtered) ==
    IF ok THEN "swap" ELSE IF filtered THEN "wait" ELSE "report"

\* a slip: the test of l.f is left out
HasFileAlways(h) == TRUE

\* if ok && l.f != nil
HasFile(h) == h # NilFile

changeCreate(ok) ==
    /\ Running
    /\ rpc = "recvd"
    /\ IF ~HasFile(f)
       THEN /\ rpc' = "wait"
            /\ UNCHANGED << files, handles, rnew, rlc, calls, errs >>
       ELSE IF ok
       THEN /\ files' = files \cup {DatedName(logFile, now)}
            /\ handles' = Append(handles, DatedName(logFile, now))
            /\ rnew' = Len(handles) + 1
            /\ rpc' = AfterCreate(TRUE, FALSE)
            /\ UNCHANGED << rlc, calls, errs >>
       ELSE /\ calls < budget
            /\ calls' = calls + 1
            /\ errs' = errs + 1
            /\ rpc' = AfterCreate(FALSE, BelowThreshold(LevelError, level))
            /\ rlc' = IF BelowThreshold(LevelError, level) THEN rlc
                      ELSE ErrorRecord(calls + 1, DatedName(logFile, now))
            /\ UNCHANGED << files, handles, rnew >>
    /\ attempts' = IF HasFile(f) THEN attempts + 1 ELSE attempts
    /\ UNCHANGED << level, buffer, out, f, curDay, now, link, closed, sending,
                    wpc, wlc, wout, roldF, halted, exitCode, panicMsg, accepted,
                    written, lost, ticks,
                    pool, wbuf, notes, budget >>

changeReport ==
    /\ Running
    /\ rpc = "report"
    /\ CanSend(buffer)
    /\ buffer' = Append(buffer, rlc)
    /\ accepted' = Append(accepted, rlc)
    /\ rlc' = NoRec
    /\ rpc' = "wait"
    /\ UNCHANGED << level, out, f, curDay, now, files, link, handles, closed,
                    sending, wpc, wlc, wout, rnew, roldF, halted, exitCode,
                    panicMsg, written, lost, calls, ticks, errs,
                    pool, wbuf,
                    notes, attempts, budget >>

changeSwap ==
    /\ Running
    /\ rpc = "swap"
    /\ roldF' = f
    /\ out' = rnew
    /\ f' = rnew
    /\ rpc' = "close"
    /\ UNCHANGED << level, buffer, curDay, now, files, link, handles, closed,
                    sending, wpc, wlc, wout, rlc, rnew, halted, exitCode,
                    panicMsg, accepted, written, lost, calls, ticks, errs,
                    pool, wbuf,
                    notes, attempts, budget >>

changeClose ==
    /\ Running
    /\ rpc = "close"
    /\ closed' = (IF roldF # NilFile THEN closed \cup {roldF} ELSE closed)
    /\ roldF' = NilFile
    /\ rpc' = "symlink"
    /\ UNCHANGED << level, buffer, out, f, curDay, now, files, link, handles,
                    sending, wpc, wlc, wout, rlc, rnew, halted, exitCode,
                    panicMsg, accepted, written, lost, calls, ticks, errs,
                    pool, wbuf,
                    notes, attempts, budget >>

changeSymlink ==
    /\ Running
    /\ rpc = "symlink"
    /\ IF SymlinkOk(link)
       THEN /\ link' = handles[rnew]
            /\ rpc' = "wait"
            /\ UNCHANGED << halted, exitCode >>
       ELSE /\ halted' = "symlink"
            /\ exitCode' = 1
            /\ UNCHANGED << link, rpc >>
    /\ rnew' = NilFile
    /\ UNCHANGED << level, buffer, out, f, curDay, now, files, handles, closed,
                    sending, wpc, wlc, wout, rlc, roldF, panicMsg, accepted,
                    written, lost, calls, ticks, errs,
                    pool, wbuf,
                    notes, attempts, budget >>

Next ==
    \/ Tick
    \/ \E lv \in Thresholds : SetLogLevel(lv)
    \/ \E c \in Calls : output(c.level, c.msg)
    \/ \E lc \in sending : outputSend(lc)
    \/ writeRecv
    \/ dayChange
    \/ writeLoad
    \/ writeOut
    \/ writeTerm
    \/ \E ok \in BOOLEAN : changeCreate(ok)
    \/ changeReport
    \/ changeSwap
    \/ changeClose
    \/ changeSymlink

Spec == Init /\ [][Next]_vars

(***************************************************************************)
(* The Go scheduler runs every goroutine that can take a step: a step of   *)
(* the writer, of the rotation goroutine or of a producer that stays       *)
(* enabled is eventually taken.  The clock and the callers are not forced. *)
(***************************************************************************)
WriterStep == writeRecv \/ dayChange \/ writeLoad \/ writeOut \/ writeTerm

RotationStep ==
    \/ \E ok \in BOOLEAN : changeCreate(ok)
    \/ changeReport
    \/ changeSwap
    \/ changeClose
    \/ changeSymlink

FairSpec ==
    /\ Spec
    /\ WF_vars(WriterStep)
    /\ WF_vars(RotationStep)
    /\ WF_vars(\E lc \in sending : outputSend(lc))

(***************************************************************************)
(* A file logger whose callers only call Info("a", 1), on a threshold that *)
(* lets every record pass; the threshold is not changed.                   *)
(***************************************************************************)
InfoInit ==
    \E t \in StartDates :
        /\ level = LevelDebug
        /\ buffer = << >>
        /\ now = t
        /\ curDay = t.day
        /\ out = 1 /\ f = 1
        /\ files = {DatedName(logFile, t)}
        /\ link = DatedName(logFile, t)
        /\ handles = << DatedName(logFile, t) >>
        /\ closed = {}
        /\ sending = {}
        /\ wpc = "recv" /\ wlc = NoRec /\ wout = NilFile
        /\ pool = {} /\ wbuf = NilBuf
        /\ notes = 0 /\ attempts = 0
        /\ rpc = "wait" /\ rlc = NoRec /\ rnew = NilFile /\ roldF = NilFile
        /\ halted = "no" /\ exitCode = 0 /\ panicMsg = ""
        /\ accepted = << >> /\ written = << >> /\ lost = << >>
        /\ errs = 0 /\ calls = 0 /\ ticks = 0
        /\ budget = MaxInfoCalls

InfoNext ==
    \/ Tick
    \/ output(LevelInfo, Plain)
    \/ \E lc \in sending : outputSend(lc)
    \/ writeRecv
    \/ dayChange
    \/ writeLoad
    \/ writeOut
    \/ \E ok \in BOOLEAN : changeCreate(ok)
    \/ changeReport
    \/ changeSwap
    \/ changeClose
    \/ changeSymlink

InfoSpec == InfoInit /\ [][InfoNext]_vars

(***************************************************************************)
(* Logger.format and the writer on one record.  A stream logger built at   *)
(* an instant of StartDates has one record in its queue, drawn from the    *)
(* instants, levels and messages below; the writer renders and writes it.  *)
(* Nobody else calls the logger and the clock stands still.                *)
(***************************************************************************)
FormatTimes ==
    StartDates \cup
    { Midnight(2019, 1, 1),
      [year |-> 2019, month |-> 10, day |-> 9, hour |-> 8, min |-> 7, sec |-> 6],
      [year |-> 2020, month |-> 2, day |-> 29, hour |-> 12, min |-> 0, sec |-> 30],
      [year |-> 2021, month |-> 11, day |-> 30, hour |-> 9, min |-> 45, sec |-> 10] }

\* Info(1, 2), Info("a", "b"), Info(1, "a", 2, 3), Info()
Numbers == [format |-> << >>, v |-> << IntArg(1), IntArg(2) >>]
Strings == [format |-> << >>, v |-> << StrArg("a"), StrArg("b") >>]
Mixed ==
    [format |-> << >>, v |-> << IntArg(1), StrArg("a"), IntArg(2), IntArg(3) >>]
Nothing == [format |-> << >>, v |-> << >>]

FormatMsgs == {Plain, Templated, Numbers, Strings, Mixed, Nothing}

FormatInit ==
    \E t0 \in StartDates, t \in FormatTimes, lv \in LogLevel, msg \in FormatMsgs :
        /\ level = LevelDebug
        /\ now = t
        /\ curDay = t0.day
        /\ buffer = << NewRecord(1, lv, msg) >>
        /\ accepted = << NewRecord(1, lv, msg) >>
        /\ out = Stream /\ f = NilFile
        /\ files = {} /\ link = NoLink /\ handles = << >> /\ closed = {}
        /\ sending = {}
        /\ wpc = "recv" /\ wlc = NoRec /\ wout = NilFile
        /\ pool = {} /\ wbuf = NilBuf
        /\ notes = 0 /\ attempts = 0
        /\ rpc = "wait" /\ rlc = NoRec /\ rnew = NilFile /\ roldF = NilFile
        /\ halted = "no" /\ exitCode = 0 /\ panicMsg = ""
        /\ written = << >> /\ lost = << >>
        /\ errs = 0 /\ calls = 1 /\ ticks = 0
        /\ budget = 1

FormatNext ==
    \/ writeRecv
    \/ dayChange
    \/ \E ok \in BOOLEAN : changeCreate(ok)
    \/ writeLoad
    \/ writeOut
    \/ writeTerm

FormatSpec == FormatInit /\ [][FormatNext]_vars

(***************************************************************************)
(* Vocabulary of the properties.                                           *)
(***************************************************************************)
WrittenRecs == [i \in 1 .. Len(written) |-> written[i].lc]

Range(s) == { s[i] : i \in 1 .. Len(s) }

IsPrefix(s, t) == Len(s) <= Len(t) /\ \A i \in 1 .. Len(s) : s[i] = t[i]

\* no Fatal or Panic record entered the queue before the i-th
NoTerminalBefore(i) == \A j \in 1 .. (i - 1) : ~IsTerminal(accepted[j].level)

FileLogger == f # NilFile

\* the records that exist: at a send, queued, or in the writer's hands
Live == sending \cup Range(buffer) \cup (IF rlc = NoRec THEN {} ELSE {rlc})

(***************************************************************************)
(* C1.  At every moment the sequence of records written to the sink is a   *)
(* prefix of the sequence of records in the order they entered the queue.  *)
(* Violated: a Write on a handle the rotation goroutine has closed writes  *)
(* nothing, and the writer goes on to the next record.                     *)
(***************************************************************************)
C1_SinkIsPrefixOfAccepted == IsPrefix(WrittenRecs, accepted)

(***************************************************************************)
(* C2, as stated.  Every record that enters the queue has a level at or    *)
(* above the threshold in force at the moment it is enqueued.  Violated:   *)
(* output tests the level first and sends later; SetLogLevel can raise the *)
(* threshold in between, for instance while the producer waits for a slot. *)
(***************************************************************************)
C2_LevelAtLeastThresholdAtEnqueue ==
    [][Len(buffer') > Len(buffer) => buffer'[Len(buffer')].level >= level]_vars

(***************************************************************************)
(* C2, amended.  A call of output whose level is below the threshold it    *)
(* reads creates no record and changes neither the queue nor the sink;     *)
(* every record created has a level at or above the threshold read by its  *)
(* call, only created records enter the queue, and so every record queued  *)
(* or written has a level at or above the threshold its call read,         *)
(* whatever SetLogLevel does afterwards.                                   *)
(***************************************************************************)
C2_LevelAtLeastThresholdAtCall ==
    /\ [][/\ \A lc \in Live' \ Live : lc.level >= level /\ lc.thr = level
          /\ Len(buffer') > Len(buffer) =>
                 buffer'[Len(buffer')] \in sending \cup {rlc}
          /\ Len(written') > Len(written) =>
                 written'[Len(written')].lc \in Range(accepted)]_vars
    /\ [](\A lc \in Live \cup Range(accepted) \cup Range(WrittenRecs) :
              lc.level >= lc.thr)

\* a record was written, the threshold was then raised above its level, and
\* a call below the threshold was made and left no record
C2_Witness ==
    /\ \E i \in 1 .. Len(written) : written[i].lc.level < level
    /\ calls > Len(accepted) + Cardinality(sending)
                 + (IF rlc = NoRec THEN 0 ELSE 1)
    /\ errs = 0

(***************************************************************************)
(* C3.  Every accepted record with no Fatal or Panic record before it is   *)
(* eventually written.  Stated on the runs that end: once the process has  *)
(* stopped, every such record has been written.  Violated: the rotation    *)
(* goroutine ends the process (log.Fatal on os.Symlink) with records       *)
(* queued.                                                                 *)
(***************************************************************************)
C3_AcceptedIsWritten ==
    ~Running =>
        \A i \in 1 .. Len(accepted) :
            NoTerminalBefore(i) => accepted[i] \in Range(WrittenRecs)

(***************************************************************************)
(* C4.  Once the process has stopped with a Fatal record accepted (and no  *)
(* Fatal or Panic record before it), the exit status is 1 and the line of  *)
(* that record has been written.  Violated: the process ends in the        *)
(* rotation goroutine, or the writer exits after a Write that failed on a  *)
(* closed handle.                                                          *)
(***************************************************************************)
C4_ExitOnlyAfterFatalWritten ==
    ~Running =>
        \A i \in 1 .. Len(accepted) :
            (accepted[i].level = LevelFatal /\ NoTerminalBefore(i)) =>
                (exitCode = 1 /\ accepted[i] \in Range(WrittenRecs))

(***************************************************************************)
(* C5.  When the writer has raised the panic of a Panic record, the value  *)
(* of the panic is the message body of the record and the line of the      *)
(* record has been written.  Violated: the Write failed on a closed        *)
(* handle, and the panic is raised all the same.                           *)
(***************************************************************************)
C5_PanicOnlyAfterLineWritten ==
    halted = "panic" =>
        (panicMsg = Body(wlc) /\ wlc \in Range(WrittenRecs))

(***************************************************************************)
(* C6.  The queue never holds more records than its capacity; a step       *)
(* changes the queue only by taking its head or by appending one record to *)
(* a queue that is not full, so no record in it is dropped or overwritten; *)
(* and while the queue is full every producer at its send stays there with *)
(* its record.                                                             *)
(***************************************************************************)
C6_QueueBoundedProducersBlock ==
    /\ [](Len(buffer) <= defaultBufferSize)
    /\ [][/\ \/ buffer' = buffer
             \/ buffer # << >> /\ buffer' = Tail(buffer)
             \/ /\ Len(buffer) < defaultBufferSize
                /\ \E lc \in sending \cup {rlc} : buffer' = Append(buffer, lc)
          /\ Len(buffer) = defaultBufferSize => sending \subseteq sending'
          /\ \A lc \in sending \ sending' : buffer' = Append(buffer, lc)]_vars

\* the queue is full and a producer waits at its send
C6_Witness == Len(buffer) = defaultBufferSize /\ sending # {}

(***************************************************************************)
(* C7.  For a file logger, once the writer has processed a record of a new *)
(* day, the system reaches a state where the symlink points at a dated     *)
(* file created by a rotation, the active sink is an open handle on that   *)
(* file and the process runs (unless createFile has failed, or a Fatal or  *)
(* Panic record has ended the process).  Violated: the symlink made by     *)
(* NewLoggerFromFile exists, os.Symlink fails and log.Fatal ends the       *)
(* process.                                                                *)
(***************************************************************************)
NewDayProcessed ==
    \E r \in Range(written) \cup Range(lost) : r.lc.t.day # curDay

Rotated ==
    /\ Running
    /\ out = f /\ f > 1 /\ f \notin closed
    /\ link = handles[f]

C7_RotationCompletes ==
    (FileLogger /\ NewDayProcessed) ~>
        (Rotated \/ errs > 0 \/ halted \in {"fatal", "panic"})

(***************************************************************************)
(* C8.  The writer never performs a Write on a handle that has been        *)
(* closed.  Violated: the writer reads l.out, the rotation goroutine swaps *)
(* and closes the old handle, the writer writes to it.                     *)
(***************************************************************************)
C8_NoWriteOnClosedHandle == lost = << >>

(***************************************************************************)
(* C9.  The writer's read of l.out and the rotation goroutine's assignment *)
(* to it are never both pending with nothing ordering them.  Violated:     *)
(* after the exchange on l.dayChange both goroutines run on, one to the    *)
(* read and one to the assignment.                                         *)
(***************************************************************************)
C9_NoConcurrentSinkAccess == ~(wpc = "load" /\ rpc = "swap")

(***************************************************************************)
(* C10, as stated.  When createFile fails, an Error record for it is on    *)
(* its way into the queue, and the sink and the handle are unchanged.      *)
(* Violated: with a threshold above Error, l.Error returns at the level    *)
(* test and nothing is enqueued.                                           *)
(***************************************************************************)
C10_CreateFailureIsEnqueued ==
    [][errs' > errs =>
          /\ rpc' = "report" /\ rlc'.level = LevelError
          /\ out' = out /\ f' = f /\ closed' = closed]_vars

(***************************************************************************)
(* C10, amended.  When createFile fails, the active sink and the current   *)
(* handle are unchanged and the handle is open; if the threshold is at     *)
(* most Error, an Error record is made and the rotation goroutine stays at *)
(* its send, without touching the sink, until the queue takes the record,  *)
(* and then waits for the next notification; if the threshold is above     *)
(* Error, nothing is enqueued and it waits for the next notification.      *)
(***************************************************************************)
C10_CreateFailureIsReported ==
    [][/\ errs' > errs =>
             /\ out' = out /\ f' = f /\ closed' = closed
             /\ out = f /\ f \notin closed
             /\ buffer' = buffer
             /\ IF level <= LevelError
                THEN rpc' = "report" /\ rlc'.level = LevelError
                ELSE rpc' = "wait" /\ rlc' = NoRec
       /\ rpc = "report" =>
             /\ out' = out /\ f' = f /\ closed' = closed
             /\ rpc' # "report" =>
                    /\ rpc' = "wait"
                    /\ Len(buffer) < defaultBufferSize
                    /\ buffer' = Append(buffer, rlc)]_vars

\* a failure of createFile was reported and its Error record was written to
\* the previous file, which is still the sink and still open
C10_Witness ==
    /\ errs > 0
    /\ Running
    /\ out = 1 /\ f = 1 /\ closed = {}
    /\ \E i \in 1 .. Len(written) :
           written[i].lc.level = LevelError /\ written[i].h = 1


(***************************************************************************)
(* C11.  A failure of os.Symlink during rotation does not end the process. *)
(* Violated: changeFileByDay calls log.Fatal on that error, after it has   *)
(* already swapped the sink and closed the previous handle.                *)
(***************************************************************************)
C11_SymlinkFailureIsNotFatal == halted # "symlink"

(***************************************************************************)
(* C12.  For a file logger, whenever no rotation is in progress (the       *)
(* rotation goroutine waits for a notification, or the rotation has ended) *)
(* the symlink points at the file the active sink writes to.  Violated:    *)
(* the rotation swaps the sink to the new file and then fails to repoint   *)
(* the symlink, which stays on the file of the first day.                  *)
(***************************************************************************)
C12_LinkPointsAtActiveFile ==
    (FileLogger /\ ((Running /\ rpc = "wait") \/ halted = "symlink")) =>
        link = handles[out]

(***************************************************************************)
(* C13.  A buffer is back in the pool only after the writer has finished   *)
(* writing the record rendered in it: while the writer still has the       *)
(* bytes to write, their buffer is not in the pool.  Violated: the Put is  *)
(* deferred in format and runs when format returns, before Write.          *)
(***************************************************************************)
C13_BufferPooledOnlyAfterWrite ==
    (wpc \in {"load", "write"}) => wbuf \notin pool

(***************************************************************************)
(* C14.  The body of a record without a template.                          *)
(***************************************************************************)
\* the body is the piece of the line before the final newline
BodyOf(bytes) == bytes[Len(bytes) - 1]

RECURSIVE JoinWith(_, _)
JoinWith(v, sep) ==
    IF v = << >> THEN ""
    ELSE IF Len(v) = 1 THEN v[1].s
    ELSE JoinWith(SubSeq(v, 1, Len(v) - 1), sep) \o sep \o v[Len(v)].s

\* the operands up to the n-th, a space put between two neighbours of which
\* neither is a string
RECURSIVE JoinNonStrings(_, _)
JoinNonStrings(v, n) ==
    IF n = 0 THEN ""
    ELSE JoinNonStrings(v, n - 1)
         \o (IF n > 1 /\ "s" \notin {v[n - 1].k, v[n].k} THEN " " ELSE "")
         \o v[n].s

\* C14 as stated: without a template the body is the arguments joined with
\* a single space between adjacent arguments.  Violated: Info("a", 1) is
\* rendered with the body "a1".
C14_BodyJoinsWithSpaces ==
    \A i \in 1 .. Len(written) :
        written[i].lc.format = << >> =>
            BodyOf(written[i].bytes) = JoinWith(written[i].lc.v, " ")

\* C14, amended: without a template the body is the arguments in order,
\* with a single space between two adjacent arguments exactly when neither
\* of the two is a string.
C14_BodySpacesBetweenNonStrings ==
    \A i \in 1 .. Len(written) :
        written[i].lc.format = << >> =>
            BodyOf(written[i].bytes) =
                JoinNonStrings(written[i].lc.v, Len(written[i].lc.v))

\* Info("a", 1) was written, with the body "a1"
C14_Witness ==
    \E i \in 1 .. Len(written) :
        /\ written[i].lc.format = << >>
        /\ written[i].lc.v = << StrArg("a"), IntArg(1) >>
        /\ BodyOf(written[i].bytes) = "a1"

(***************************************************************************)
(* C15.  Every line written starts with the year as four decimal digits    *)
(* and carries the month, the day, the hour, the minute and the second of  *)
(* its record's timestamp each as exactly two decimal digits, padded with  *)
(* a zero.                                                                 *)
(***************************************************************************)
Digits == {"0", "1", "2", "3", "4", "5", "6", "7", "8", "9"}

TwoDigits == { a \o b : a \in Digits, b \in Digits }

FourDigits == { a \o b : a \in TwoDigits, b \in TwoDigits }

\* the fields of the timestamp: what stands before each '/', ' ' and ':' of
\* the line, up to the '[' of the level
RECURSIVE StampFields(_, _, _)
StampFields(bytes, i, cur) ==
    IF i > Len(bytes) \/ bytes[i] = "[" THEN << >>
    ELSE IF bytes[i] \in {"/", " ", ":"}
         THEN << cur >> \o StampFields(bytes, i + 1, "")
         ELSE StampFields(bytes, i + 1, cur \o bytes[i])

\* s is the number n written in two digits
IsTwoDigitsOf(s, n) == s \in TwoDigits /\ s \in {ToString(n), "0" \o ToString(n)}

C15_StampFieldsAreTwoDigits ==
    \A i \in 1 .. Len(written) :
        LET fl == StampFields(written[i].bytes, 1, "")
            t == written[i].lc.t
        IN  /\ Len(fl) = 6
            /\ fl[1] \in FourDigits /\ fl[1] = ToString(t.year)
            /\ IsTwoDigitsOf(fl[2], t.month)
            /\ IsTwoDigitsOf(fl[3], t.day)
            /\ IsTwoDigitsOf(fl[4], t.hour)
            /\ IsTwoDigitsOf(fl[5], t.min)
            /\ IsTwoDigitsOf(fl[6], t.sec)

\* a record of 2019-10-09 08:07:06 was written: a two-digit month next to
\* one-digit day, hour, minute and second
C15_Witness ==
    \E i \in 1 .. Len(written) :
        /\ written[i].lc.t.month = 10 /\ written[i].lc.t.day = 9
        /\ written[i].lc.t.hour = 8 /\ written[i].lc.t.sec = 6
        /\ StampFields(written[i].bytes, 1, "") =
               << "2019", "10", "09", "08", "07", "06" >>

(***************************************************************************)
(* C16.  Every dated file the logger has opened is named                   *)
(* <baseName>.<YYYYMMDD>: the year and then the month and the day of the   *)
(* day it was opened on, month and day in two digits padded with a zero.   *)
(* Violated: formatTime renders with "%4d%2d%2d", which pads with spaces,  *)
(* so the file of 2019-01-01 is "log.2019 1 1".                            *)
(***************************************************************************)
RECURSIVE DaysFrom(_, _)
DaysFrom(t, n) == IF n = 0 THEN {t} ELSE {t} \cup DaysFrom(NextDate(t), n - 1)

\* the days the clock can have shown
DaysSeen == UNION { DaysFrom(t, MaxTicks) : t \in StartDates }

YYYYMMDD(t) ==
    ToString(t.year)
    \o (IF t.month < 10 THEN "0" ELSE "") \o ToString(t.month)
    \o (IF t.day < 10 THEN "0" ELSE "") \o ToString(t.day)

C16_DatedNameIsEightDigits ==
    \A name \in files :
        \E t \in DaysSeen : name = logFile \o "." \o YYYYMMDD(t)

(***************************************************************************)
(* C17.  When the writer has formatted a record whose day differs from     *)
(* the day marker, the marker equals that record's day: at the send of     *)
(* the notification, and whenever the writer holds a record past the       *)
(* comparison of the days, l.curDay is the day of that record.  Violated:  *)
(* format has a value receiver, its assignment to l.curDay is made on a    *)
(* copy of the Logger, and the marker stays the day of construction.       *)
(***************************************************************************)
C17_MarkerFollowsRecordDay ==
    (wpc \in {"notify", "load", "write"}) => curDay = wlc.t.day

(***************************************************************************)
(* C18.  Emitting the notification never blocks the writer: whenever the   *)
(* writer is at the send on l.dayChange in a running process, it can take  *)
(* its next step.  Violated: the channel is unbuffered and the send is a   *)
(* plain send, which waits until changeFileByDay is back at its receive.   *)
(***************************************************************************)
C18_NotificationNeverBlocks ==
    (Running /\ wpc = "notify") => ENABLED WriterStep

(***************************************************************************)
(* C19.  Within one rotation the order is: create the file, repoint the    *)
(* symlink, swap the sink, close the previous handle.  So a step that      *)
(* swaps the sink finds the symlink already on the file of the new         *)
(* handle, and a step that closes a handle finds the sink already swapped  *)
(* away from it.  Violated: changeFileByDay swaps the sink and closes the  *)
(* previous handle before it calls os.Symlink.                             *)
(***************************************************************************)
C19_SymlinkThenSwapThenClose ==
    [][ /\ (out' # out => link = handles[out'])
        /\ (\A h \in closed' \ closed : out # h) ]_vars

(***************************************************************************)
(* C20.  No record that entered the queue after a Fatal or Panic record    *)
(* is ever dequeued: it is not the record in the writer's hands, it was    *)
(* neither written nor handed to a failing Write, and it is still among    *)
(* the records queued.                                                     *)
(***************************************************************************)
Handled == { written[k].lc : k \in 1 .. Len(written) }
               \cup { lost[k].lc : k \in 1 .. Len(lost) } \cup {wlc}

C20_NothingDequeuedAfterTerminal ==
    \A i \in 1 .. Len(accepted) : \A j \in (i + 1) .. Len(accepted) :
        accepted[i].level \in {LevelPanic, LevelFatal} =>
            /\ accepted[j] \notin Handled
            /\ accepted[j] \in Range(buffer)

\* a Fatal or Panic record was written and has ended the process while a
\* record that was queued behind it is still in the queue
C20_Witness ==
    /\ halted \in {"fatal", "panic"}
    /\ \E k \in 1 .. Len(written) : \E j \in 1 .. Len(accepted) :
           /\ written[k].lc.level \in {LevelPanic, LevelFatal}
           /\ accepted[j].id > written[k].lc.id
           /\ accepted[j] \in Range(buffer)

(***************************************************************************)
(* C21.  changeFileByDay attempts a rotation only in response to a         *)
(* notification: the number of createFile calls it has made never exceeds  *)
(* the number of notifications passed on l.dayChange (so a failed attempt  *)
(* is followed by another only after a later notification), and as long    *)
(* as the writer has dequeued no record there is no attempt and the        *)
(* rotation goroutine waits, however many midnights have passed.           *)
(***************************************************************************)
NothingDequeued == Len(buffer) = Len(accepted) /\ wlc = NoRec

C21_RotationOnlyOnNotification ==
    /\ attempts <= notes
    /\ NothingDequeued =>
           /\ attempts = 0 /\ notes = 0 /\ rpc = "wait"
           /\ files = (IF FileLogger THEN {handles[1]} ELSE {})

\* after a midnight, a createFile of the rotation has failed and the
\* rotation goroutine is back at its receive, every notification used up
C21_Witness ==
    /\ ticks > 0 /\ errs > 0
    /\ rpc = "wait"
    /\ attempts = notes

(***************************************************************************)
(* C22.  The pipeline never deadlocks: in a running process in which a     *)
(* goroutine has something to do (a caller is at its send, a record is     *)
(* queued, the writer holds a record, or the rotation goroutine is past    *)
(* its receive), some goroutine can take a step.  Violated: the writer     *)
(* waits at its send on l.dayChange for the rotation goroutine, which      *)
(* waits inside l.Error(err) for a free slot of the full queue, which      *)
(* only the writer empties.                                                *)
(***************************************************************************)
PipelineStep ==
    WriterStep \/ RotationStep \/ (\E lc \in sending : outputSend(lc))

SomethingToDo ==
    sending # {} \/ buffer # << >> \/ wpc # "recv" \/ rpc # "wait"

C22_NoDeadlock == (Running /\ SomethingToDo) => ENABLED PipelineStep

(***************************************************************************)
(* C23.  For a logger built on a plain stream, notifications change        *)
(* nothing: the active sink is the stream, no file and no symlink exist,   *)
(* no handle was opened or closed, no createFile was attempted, and every  *)
(* record written, those after a notification included, went to the        *)
(* stream, in the order of the queue, none failing.                        *)
(***************************************************************************)
C23_StreamLoggerIgnoresNotifications ==
    (f = NilFile) =>
        /\ out = Stream
        /\ files = {} /\ link = NoLink
        /\ handles = << >> /\ closed = {}
        /\ attempts = 0
        /\ lost = << >>
        /\ \A k \in 1 .. Len(written) : written[k].h = Stream
        /\ IsPrefix(WrittenRecs, accepted)

\* a stream logger has passed two notifications and has written, to the
\* stream, a second record of the new day
C23_Witness ==
    /\ f = NilFile
    /\ notes >= 2
    /\ Len(written) >= 2
    /\ written[2].lc.t.day # curDay
    /\ written[2].h = Stream
=============================================================================
